---- MODULE Spec2Model ----
(***************************************************************************)
(* Model of src/bot.py: a chat-driven hosting bot.  Users upload a script  *)
(* or clone a repository, optionally add extras, and run the target as a   *)
(* background child process.  Shared state: the ownership registry         *)
(* (ownership.json), the list of allowed users (allowed_users.json) and    *)
(* the table running_processes.  Per-user state: the conversation state    *)
(* and the user_data bag.                                                  *)
(*                                                                         *)
(* Text is modelled as a sequence of tokens (a token is a character or a   *)
(* fixed group of characters such as ".py"), so that prefix/suffix tests   *)
(* and splits are computed as the code computes them.  None and the empty  *)
(* string are both the empty sequence (both are falsy in the code); a      *)
(* missing owner is 0 (falsy as well).                                     *)
(***************************************************************************)
EXTENDS Integers, Sequences, FiniteSets, TLC

\* ------------------------------------------------------------------ bounds
\* Children spawned over the whole run.
MaxPid == 2

\* Conversations started over the whole run: under Spec (every event), and
\* under SpecIntake (no button events).
MaxFlows == 1
MaxIntake == 2

\* Overlay files drawn under SpecEnv: lines per file, tokens per line.
MaxEnvLines == 2
MaxLineLen == 3

\* Requirements files drawn under SpecFix: lines per file, and characters of
\* a line after its leading part.
MaxManifestLines == 2
MaxBodyLen == 3

\* --------------------------------------------------------------- constants
ADMIN_ID == 1
Users == {1, 2}

UPLOAD_DIR == <<"scripts">>

\* Conversation states (the values the handlers return).
END == "END"
WAIT_PY == "WAIT_PY"
WAIT_EXTRAS == "WAIT_EXTRAS"
WAIT_URL == "WAIT_URL"
WAIT_SELECT_FILE == "WAIT_SELECT_FILE"
WAIT_GIT_EXTRAS == "WAIT_GIT_EXTRAS"
WAIT_DEPLOY_REPO == "WAIT_DEPLOY_REPO"

\* ------------------------------------------------------------ text helpers
Contains(s, tok) == \E i \in 1..Len(s) : s[i] = tok

StartsWith(s, tok) == Len(s) > 0 /\ s[1] = tok

EndsWith(s, tok) == Len(s) > 0 /\ s[Len(s)] = tok

\* str.split(sep, 1) on a string that contains sep.
SplitFirst(s, sep) ==
    LET i == CHOOSE k \in 1..Len(s) : s[k] = sep /\ \A j \in 1..(k-1) : s[j] # sep
    IN  <<SubSeq(s, 1, i-1), SubSeq(s, i+1, Len(s))>>

\* str.split(sep)[0]
SplitHead(s, sep) == IF Contains(s, sep) THEN SplitFirst(s, sep)[1] ELSE s

\* str.split(sep)[1] on a string that contains sep: what lies between the
\* first sep and the next one (or the end).
SplitSecond(s, sep) == SplitHead(SplitFirst(s, sep)[2], sep)

\* str.split(sep)[-1]
RECURSIVE SplitLast(_, _)
SplitLast(s, sep) ==
    IF Contains(s, sep) THEN SplitLast(SplitFirst(s, sep)[2], sep) ELSE s

\* str.replace(old, new) for single tokens; new = <<>> deletes.
RECURSIVE Replace(_, _, _)
Replace(s, old, new) ==
    IF s = <<>> THEN <<>>
    ELSE (IF Head(s) = old THEN new ELSE <<Head(s)>>) \o Replace(Tail(s), old, new)

\* os.path.join(dir, name)
Join(dir, name) == dir \o <<"/">> \o name

\* The directory part of a path (everything before its last "/").
Dirname(path) ==
    LET i == CHOOSE k \in 1..Len(path) :
                 path[k] = "/" /\ \A j \in (k+1)..Len(path) : path[j] # "/"
    IN  SubSeq(path, 1, i-1)

\* ------------------------------------------------------------ input values
FileA == <<"a", ".py">>
BadFile == <<"a", ".bin">>
ReqFile == <<"q", ".txt">>
EnvFile == <<"e", ".env">>
RepoName == <<"r">>
PathFlat == <<"m", ".py">>
PathDeep == <<"d", "/", "m", ".py">>
UrlGood == <<"http", "/", "r", ".git">>
UrlBad == <<"r", ".git">>

\* unique_id = f"{repo_name}|{filename}"
ComposeId(repo_name, filename) == repo_name \o <<"|">> \o filename

RepoFlat == ComposeId(RepoName, PathFlat)
RepoDeep == ComposeId(RepoName, PathDeep)
Targets == {FileA, RepoFlat, RepoDeep}

\* A URL whose last part holds the separator, the repo name it gives, and a
\* relative path that holds the separator.
UrlPipe == <<"http", "/", "a", "|", "b", ".git">>
RepoPipe == <<"a", "|", "b">>
PathPipe == <<"x", "|", "m", ".py">>

\* callback_data of a button: f"man_{tid}", f"stop_{target_id}", ...
Payload(prefix, tid) == <<prefix>> \o tid

\* What a branch of manage_callback takes for the id: data.split(prefix)[1].
ParseId(prefix, data) == SplitSecond(data, prefix)

\* The prefixes of the branches whose code is in the file up to their reply.
Prefixes == {"man_", "stop_", "rerun_", "url_"}

\* Uploaded scripts whose names hold the text of a prefix: human_bot.py,
\* nonstop_x.py and prerun_x.py.
FileMan == <<"hu", "man_", "bot", ".py">>
FileStop == <<"non", "stop_", "x", ".py">>
FileRerun == <<"p", "rerun_", "x", ".py">>
PrefixFiles == {FileMan, FileStop, FileRerun}

\* Every id the registry and the table can hold a key for, or a handler can
\* be handed by a button.
Ids ==
    Targets
    \cup {ComposeId(r, f) : r \in {RepoName, RepoPipe},
                            f \in {PathFlat, PathDeep, PathPipe}}
    \cup PrefixFiles
    \cup {ParseId(p, Payload(p, t)) : p \in Prefixes, t \in PrefixFiles}

\* A requirements file: "pip install requests flask", then "numpy==1.2".
ManifestExample ==
    << <<"p", "i", "p", " ", "i", "n", "s", "t", "a", "l", "l", " ",
         "requests", " ", "flask">>,
       <<"numpy==1.2">> >>

\* The host environment of the bot and an uploaded overlay file.
EnvA1 == <<"A">> :> <<"1">>
OverlayA2B3 == << <<"A", "=", "2">>, <<"B", "=", "3">> >>

NoData == [type |-> "", target_id |-> <<>>, work_dir |-> <<>>, wait |-> "",
           repo_path |-> <<>>, repo_name |-> <<>>, fallback_id |-> <<>>]

Idle == [op |-> "idle", arg |-> <<>>, pid |-> 0, conv |-> FALSE]

VARIABLES
    allowed_users,       \* allowed_users.json
    ownership,           \* ownership.json: target -> [owner, type]; owner 0 = no record
    files,               \* artifact files present in the scripts directory
    repos,               \* the repo names whose directory exists under scripts
    running_processes,   \* target -> pid of the recorded Popen, 0 = no entry
    proc,                \* every child spawned so far: pid -> [target, st]
    conv,                \* user -> conversation state
    user_data,           \* user -> context.user_data
    pc,                  \* user -> the suspended handler of that user, if any
    budget,              \* number of conversations that may still start
    host_env,            \* os.environ of the bot: key -> value
    env_files,           \* env path -> [exists, lines]: the overlay files on disk
    custom_env,          \* the environment of the child spawned last
    req_files,           \* requirements path -> the lines of the file (<<>>: none)
    reply                \* the last message sent: [kind, tid]

vars == <<allowed_users, ownership, files, repos, running_processes, proc,
          conv, user_data, pc, budget, host_env, env_files, custom_env, req_files,
          reply>>

\* ------------------------------------------------------------- data layer
\* get_owner: the recorded owner, 0 (None) when the target has no record.
get_owner(target_id) == ownership[target_id].owner

\* Mutant: a record that is there is kept (the first writer wins).
save_ownership_KeepFirst(target_id, user_id, type_) ==
    IF ownership[target_id].owner # 0 THEN ownership
    ELSE [ownership EXCEPT ![target_id] = [owner |-> user_id, type |-> type_]]

\* save_ownership: the registry after data[target_id] = {owner, type}.
save_ownership(target_id, user_id, type_) ==
    [ownership EXCEPT ![target_id] = [owner |-> user_id, type |-> type_]]

\* save_allowed_user / remove_allowed_user: the list after the call.
save_allowed_user(uid) == allowed_users \cup {uid}

remove_allowed_user(uid) == allowed_users \ {uid}

\* The test of the restricted decorator: TRUE when access is denied.
Denied(uid) == uid # ADMIN_ID /\ uid \notin allowed_users

\* The message sent by the step.
Say(u, kind, tid) == reply' = [kind |-> kind, tid |-> tid]

\* ------------------------------------------------------------- scheduling
\* process.wait() in the stop handler is a blocking call: while it waits,
\* the event loop runs no handler at all.
LoopFree == \A u \in Users : pc[u].op \notin {"stopwait", "clone"}

\* A new event of user u is handled when the loop is free and no handler of
\* u is suspended.
Ready(u) == LoopFree /\ pc[u] = Idle

\* ------------------------------------------------------------ supervisor
\* process.poll() is None
Polls(pid) == proc[pid].st = "alive"

\* /status: script_name in running_processes and poll() is None
script_status(script_name) ==
    running_processes[script_name] # 0 /\ Polls(running_processes[script_name])

\* Mutant: the poll test is inverted, so a start goes through exactly when
\* the recorded process is alive.
AlreadyRunning_Inverted(target_id) ==
    running_processes[target_id] # 0 /\ ~Polls(running_processes[target_id])

\* Mutant: the guard is missing.
AlreadyRunning_Missing(target_id) == FALSE

\* Mutant: an entry counts as running whether or not its process is alive.
AlreadyRunning_NoPoll(target_id) == running_processes[target_id] # 0

\* The "Already running?" guard of execute_logic.
AlreadyRunning(target_id) ==
    running_processes[target_id] # 0 /\ Polls(running_processes[target_id])

\* Mutant: the guard of the stop_ branch without the poll.
StopLive_NoPoll(tid) == running_processes[tid] # 0

\* The guard of the stop_ branch.
StopLive(tid) ==
    running_processes[tid] # 0 /\ Polls(running_processes[tid])

\* is_running of the man_ branch.
ManageIsRunning(target_id) ==
    running_processes[target_id] # 0 /\ Polls(running_processes[target_id])

\* ------------------------------------------------- requirements manifest
\* "pip install", one character per element.
Directive == <<"p", "i", "p", " ", "i", "n", "s", "t", "a", "l", "l">>

\* str.lower() on one character.
Lower(c) ==
    CASE c = "P" -> "p" [] c = "I" -> "i" [] c = "N" -> "n" [] c = "S" -> "s"
      [] c = "T" -> "t" [] c = "A" -> "a" [] c = "L" -> "l" [] OTHER -> c

\* str.lower()
LowerStr(s) == [i \in 1..Len(s) |-> Lower(s[i])]

\* str.startswith(pre) for a string pre.
HasPrefix(s, pre) == Len(s) >= Len(pre) /\ SubSeq(s, 1, Len(pre)) = pre

RECURSIVE LStrip(_)
\* str.lstrip(): the string without its leading whitespace.
LStrip(s) == IF s # <<>> /\ Head(s) = " " THEN LStrip(Tail(s)) ELSE s

RECURSIVE RStrip(_)
\* str.rstrip(): the string without its trailing whitespace.
RStrip(s) ==
    IF s # <<>> /\ s[Len(s)] = " " THEN RStrip(SubSeq(s, 1, Len(s) - 1)) ELSE s

\* str.strip()
Strip(s) == RStrip(LStrip(s))

RECURSIVE SplitWs(_)
\* str.split(): the words between runs of whitespace.
SplitWs(s) ==
    LET t == LStrip(s)
        n == IF Contains(t, " ")
             THEN CHOOSE k \in 1..Len(t) : t[k] = " " /\ \A j \in 1..(k-1) : t[j] # " "
             ELSE Len(t) + 1
    IN  IF t = <<>> THEN <<>>
        ELSE <<SubSeq(t, 1, n - 1)>> \o SplitWs(SubSeq(t, n, Len(t)))

\* Mutant: a directive line is kept as it is.
FixLine_KeepDirective(clean, raw) ==
    IF Strip(raw) = <<>> THEN clean ELSE Append(clean, Strip(raw))

\* The body of "for line in lines": clean after one line of the file.
FixLine(clean, raw) ==
    LET line == Strip(raw)
    IN  IF line = <<>> THEN clean
        ELSE IF HasPrefix(LowerStr(line), Directive)
             THEN clean \o SplitWs(Strip(SubSeq(line, 11 + 1, Len(line))))
             ELSE Append(clean, line)

RECURSIVE FixLines(_, _)
\* "for line in lines"
FixLines(clean, lines) ==
    IF lines = <<>> THEN clean
    ELSE FixLines(FixLine(clean, Head(lines)), Tail(lines))

\* smart_fix_requirements: the lines of the file it writes back.
smart_fix_requirements(lines) == FixLines(<<>>, lines)

\* ------------------------------------------------------ environment overlay
\* An env path without a file.
NoFile == [exists |-> FALSE, lines |-> <<>>]

\* Mutant: a key the environment already holds keeps its inherited value.
Overlay_KeepInherited(env, k, v) == env @@ (k :> v)

\* custom_env[k] = v
Overlay(env, k, v) == (k :> v) @@ env

\* The body of "for line in f": one line of the overlay file applied to env.
ApplyLine(env, raw) ==
    LET line == Strip(raw)
    IN  IF line = <<>> \/ StartsWith(line, "#") \/ ~Contains(line, "=")
        THEN env
        ELSE LET kv == SplitFirst(line, "=")
             IN  Overlay(env, Strip(kv[1]), Strip(kv[2]))

RECURSIVE ApplyLines(_, _)
\* "for line in f": the lines applied in file order.
ApplyLines(env, lines) ==
    IF lines = <<>> THEN env
    ELSE ApplyLines(ApplyLine(env, Head(lines)), Tail(lines))

\* "Load env overrides": a copy of os.environ, overlaid when the file exists.
BuildEnv(env_path) ==
    IF env_files[env_path].exists
    THEN ApplyLines(host_env, env_files[env_path].lines)
    ELSE host_env

\* Directories that exist under the working directory of the bot.
DirExists(d) == d = UPLOAD_DIR \/ \E r \in repos : d = Join(UPLOAD_DIR, r)

\* "Decide work_dir, script_path, env_path"
Resolve(target_id) ==
    IF Contains(target_id, "|")
    THEN LET parts == SplitFirst(target_id, "|")
         IN  [work_dir    |-> Join(UPLOAD_DIR, parts[1]),
              script_path |-> parts[2],
              env_path    |-> Join(Join(UPLOAD_DIR, parts[1]), <<".env">>)]
    ELSE [work_dir    |-> UPLOAD_DIR,
          script_path |-> target_id,
          env_path    |-> Join(UPLOAD_DIR, target_id \o <<".env">>)]

\* log_file_path
LogPath(target_id) ==
    Join(UPLOAD_DIR, Replace(target_id, "|", <<"_">>) \o <<".log">>)

\* The target execute_logic works on:
\* user_data.get('target_id', user_data.get('fallback_id')).
TargetOf(ud) == IF ud.target_id # <<>> THEN ud.target_id ELSE ud.fallback_id

\* The table after running_processes[target_id] = {"process": proc, ...}.
Register(target_id, pid) == [running_processes EXCEPT ![target_id] = pid]

\* execute_logic up to its first suspension (the sleep after the spawn), run
\* for user u whose user_data is ud; inConv tells whether the returned state
\* goes to a conversation.  open() of the log file is outside the try block:
\* when it raises, the handler raises and returns no state.  Popen raising
\* (a missing working directory) is caught and reported.
execute_logic(u, ud, inConv) ==
    LET target_id == TargetOf(ud)
        ended == IF inConv THEN [conv EXCEPT ![u] = END] ELSE conv
        pid == Len(proc) + 1
    IN  /\ user_data' = [user_data EXCEPT ![u] = ud]
        /\ UNCHANGED <<req_files, host_env, env_files, budget, allowed_users, ownership, files,
                       repos>>
        /\ IF target_id = <<>> THEN
                /\ Say(u, "MissingTarget", <<>>)
                /\ conv' = ended
                /\ UNCHANGED <<running_processes, proc, pc, custom_env>>
           ELSE IF AlreadyRunning(target_id) THEN
                /\ Say(u, "AlreadyRunning", target_id)
                /\ conv' = ended
                /\ UNCHANGED <<running_processes, proc, pc, custom_env>>
           ELSE IF ~DirExists(Dirname(LogPath(target_id))) THEN
                /\ Say(u, "Exception", target_id)
                /\ UNCHANGED <<conv, running_processes, proc, pc, custom_env>>
           ELSE IF ~DirExists(Resolve(target_id).work_dir) THEN
                /\ Say(u, "Error", target_id)
                /\ conv' = ended
                /\ UNCHANGED <<running_processes, proc, pc, custom_env>>
           ELSE /\ Len(proc) < MaxPid
                /\ custom_env' = BuildEnv(Resolve(target_id).env_path)
                /\ proc' = Append(proc, [target |-> target_id, st |-> "alive"])
                /\ running_processes' = Register(target_id, pid)
                /\ pc' = [pc EXCEPT ![u] = [op |-> "grace", arg |-> target_id,
                                            pid |-> pid, conv |-> inConv]]
                /\ Say(u, "Started", target_id)
                /\ UNCHANGED conv

\* execute_logic after asyncio.sleep(2): one poll of its own handle.
GraceDone(u) ==
    /\ LoopFree
    /\ pc[u].op = "grace"
    /\ IF ~Polls(pc[u].pid)
       THEN Say(u, "Crashed", pc[u].arg)
       ELSE Say(u, "Running", pc[u].arg)
    /\ conv' = IF pc[u].conv THEN [conv EXCEPT ![u] = END] ELSE conv
    /\ pc' = [pc EXCEPT ![u] = Idle]
    /\ UNCHANGED <<req_files, host_env, env_files, custom_env, budget, allowed_users, ownership, files, repos, running_processes,
                   proc, user_data>>

\* A child exits on its own (at any time, also while the loop is blocked).
ChildExit(pid) ==
    /\ Polls(pid)
    /\ proc' = [proc EXCEPT ![pid].st = "exited"]
    /\ UNCHANGED <<req_files, host_env, env_files, custom_env, budget, allowed_users, ownership, files, repos, running_processes,
                   conv, user_data, pc, reply>>

\* The children after SIGTERM reached the process group of pid and it died.
Killed(pid) == [proc EXCEPT ![pid].st = "killed"]

\* manage_callback, branch stop_: signal the group, then wait() for the exit.
\* A child that ignores SIGTERM keeps wait() (and the loop) blocked.
Stop(u, tid) ==
    /\ Ready(u)
    /\ UNCHANGED <<req_files, host_env, env_files, custom_env, budget, allowed_users, ownership, files, repos, running_processes,
                   conv, user_data>>
    /\ IF StopLive(tid)
       THEN \/ /\ proc' = Killed(running_processes[tid])
               /\ Say(u, "Stopped", tid)
               /\ UNCHANGED pc
            \/ /\ pc' = [pc EXCEPT ![u] = [op |-> "stopwait", arg |-> tid,
                                           pid |-> running_processes[tid],
                                           conv |-> FALSE]]
               /\ UNCHANGED <<proc, reply>>
       ELSE /\ Say(u, "AlreadyStopped", tid)
            /\ UNCHANGED <<proc, pc>>

\* wait() returns once the child has exited.
StopReturn(u) ==
    /\ pc[u].op = "stopwait"
    /\ ~Polls(pc[u].pid)
    /\ Say(u, "Stopped", pc[u].arg)
    /\ pc' = [pc EXCEPT ![u] = Idle]
    /\ UNCHANGED <<req_files, host_env, env_files, custom_env, budget, allowed_users, ownership, files, repos, running_processes,
                   proc, conv, user_data>>

\* manage_callback, branch rerun_: fallback_id is set, then execute_logic runs.
Rerun(u, tid) ==
    /\ Ready(u)
    /\ execute_logic(u, [user_data[u] EXCEPT !.fallback_id = tid], FALSE)

\* manage_callback, branch man_: the only branch that checks the owner.
Manage(u, target_id) ==
    /\ Ready(u)
    /\ IF u # ADMIN_ID /\ u # get_owner(target_id)
       THEN Say(u, "NotYours", target_id)
       ELSE IF ManageIsRunning(target_id)
            THEN Say(u, "MenuRunning", target_id)
            ELSE Say(u, "MenuStopped", target_id)
    /\ UNCHANGED <<req_files, host_env, env_files, custom_env, budget, allowed_users, ownership, files, repos, running_processes,
                   proc, conv, user_data, pc>>

\* manage_callback, branch url_: replies with the status link of tid.
Url(u, tid) ==
    /\ Ready(u)
    /\ Say(u, "Url", tid)
    /\ UNCHANGED <<req_files, host_env, env_files, custom_env, budget, allowed_users,
                   ownership, files, repos, running_processes, proc, conv,
                   user_data, pc>>

\* manage_callback on a button payload: the branch is chosen by the prefix
\* the payload starts with, and the id is cut out of the payload by
\* data.split(prefix)[1].
manage_callback(u, data) ==
    IF StartsWith(data, "man_") THEN Manage(u, ParseId("man_", data))
    ELSE IF StartsWith(data, "stop_") THEN Stop(u, ParseId("stop_", data))
    ELSE IF StartsWith(data, "rerun_") THEN Rerun(u, ParseId("rerun_", data))
    ELSE StartsWith(data, "url_") /\ Url(u, ParseId("url_", data))

\* -------------------------------------------------------- admin commands
\* The admin adds a user to the allowed list.
AddUser(uid) ==
    /\ Ready(ADMIN_ID)
    /\ uid \notin allowed_users
    /\ allowed_users' = save_allowed_user(uid)
    /\ Say(ADMIN_ID, "UserAdded", <<>>)
    /\ UNCHANGED <<req_files, host_env, env_files, custom_env, budget, ownership, files, repos, running_processes, proc, conv,
                   user_data, pc>>

\* The admin removes a user from the allowed list.
RemoveUser(uid) ==
    /\ Ready(ADMIN_ID)
    /\ uid \in allowed_users
    /\ allowed_users' = remove_allowed_user(uid)
    /\ Say(ADMIN_ID, "UserRemoved", <<>>)
    /\ UNCHANGED <<req_files, host_env, env_files, custom_env, budget, ownership, files, repos, running_processes, proc, conv,
                   user_data, pc>>

\* ------------------------------------------------------- flow entry points
\* upload_start, git_start, deploy_render_start: restricted, then the first
\* state of the conversation.
Entry(u, state) ==
    /\ Ready(u)
    /\ conv[u] = END
    /\ IF Denied(u)
       THEN Say(u, "AccessDenied", <<>>) /\ UNCHANGED <<conv, budget>>
       ELSE /\ budget > 0
            /\ budget' = budget - 1
            /\ Say(u, "Prompt", <<>>)
            /\ conv' = [conv EXCEPT ![u] = state]
    /\ UNCHANGED <<req_files, host_env, env_files, custom_env, allowed_users, ownership, files,
                   repos, running_processes, proc, user_data, pc>>

upload_start(u) == Entry(u, WAIT_PY)

git_start(u) == Entry(u, WAIT_URL)

deploy_render_start(u) == Entry(u, WAIT_DEPLOY_REPO)

\* cancel: replies and ends the conversation; user_data is not touched.
cancel(u) ==
    /\ Ready(u)
    /\ conv[u] # END
    /\ Say(u, "Cancelled", <<>>)
    /\ conv' = [conv EXCEPT ![u] = END]
    /\ UNCHANGED <<req_files, host_env, env_files, custom_env, budget, allowed_users, ownership, files, repos, running_processes,
                   proc, user_data, pc>>

\* ---------------------------------------------------------- flow A: upload
\* The "Taken!" test of receive_py.
Taken(fname, uid) ==
    /\ fname \in files
    /\ get_owner(fname) # 0
    /\ get_owner(fname) # uid
    /\ uid # ADMIN_ID

\* receive_py up to the download of the file (a suspension).
receive_py(u, fname) ==
    /\ Ready(u)
    /\ conv[u] = WAIT_PY
    /\ UNCHANGED <<req_files, host_env, env_files, custom_env, budget, allowed_users, ownership, files, repos, running_processes,
                   proc, conv, user_data>>
    /\ IF ~EndsWith(fname, ".py")
       THEN Say(u, "OnlyPy", <<>>) /\ UNCHANGED pc
       ELSE IF Taken(fname, u)
            THEN Say(u, "Taken", fname) /\ UNCHANGED pc
            ELSE /\ pc' = [pc EXCEPT ![u] = [op |-> "download", arg |-> fname,
                                             pid |-> 0, conv |-> TRUE]]
                 /\ UNCHANGED reply

\* receive_py after the download: the claim and the session fields.
receive_py_save(u) ==
    /\ LoopFree
    /\ pc[u].op = "download"
    /\ files' = files \cup {pc[u].arg}
    /\ ownership' = save_ownership(pc[u].arg, u, "file")
    /\ user_data' = [user_data EXCEPT ![u] =
                        [@ EXCEPT !.type = "file", !.target_id = pc[u].arg,
                                  !.work_dir = UPLOAD_DIR, !.wait = ""]]
    /\ Say(u, "Saved", pc[u].arg)
    /\ conv' = [conv EXCEPT ![u] = WAIT_EXTRAS]
    /\ pc' = [pc EXCEPT ![u] = Idle]
    /\ UNCHANGED <<req_files, host_env, env_files, custom_env, budget, allowed_users, repos, running_processes, proc>>

\* ------------------------------------------------------------------ extras
TxtRun == <<"RUN NOW">>
TxtReqs == <<"Add", "reqs">>
TxtEnv == <<"Add", ".env">>
TxtOther == <<"hello">>

InExtras(u) == conv[u] \in {WAIT_EXTRAS, WAIT_GIT_EXTRAS}

\* receive_extras (git_extras_router calls it as well).
receive_extras(u, txt) ==
    /\ Ready(u)
    /\ InExtras(u)
    /\ IF txt = TxtRun
       THEN execute_logic(u, user_data[u], TRUE)
       ELSE /\ IF Contains(txt, "reqs")
               THEN /\ Say(u, "SendReqs", <<>>)
                    /\ user_data' = [user_data EXCEPT ![u].wait = "req"]
               ELSE IF Contains(txt, ".env")
                    THEN /\ Say(u, "SendEnv", <<>>)
                         /\ user_data' = [user_data EXCEPT ![u].wait = "env"]
                    ELSE UNCHANGED <<reply, user_data>>
            /\ conv' = [conv EXCEPT ![u] = WAIT_EXTRAS]
            /\ UNCHANGED <<req_files, host_env, env_files, custom_env, budget, allowed_users, ownership, files, repos,
                           running_processes, proc, pc>>

\* prefix of the requirements file name
ExtraPrefix(target_id, type_) ==
    IF type_ = "file" THEN target_id ELSE SplitHead(target_id, "|")

\* The path receive_extra_files stores an uploaded requirements file at.
ExtraReqPath(ud) ==
    Join(ud.work_dir, ExtraPrefix(ud.target_id, ud.type) \o <<"_req", ".txt">>)

\* The path receive_extra_files stores an uploaded .env file at.
ExtraEnvPath(ud) ==
    IF ud.type = "file"
    THEN Join(ud.work_dir, ud.target_id \o <<".env">>)
    ELSE Join(ud.work_dir, <<".env">>)

\* The overlay files after download_to_drive(path) wrote content.
Download(path, content) ==
    [p \in DOMAIN env_files |->
        IF p = path THEN [exists |-> TRUE, lines |-> content] ELSE env_files[p]]

\* receive_extra_files (git_extra_files_router calls it as well), up to the
\* installer when a requirements file was accepted.
receive_extra_files(u, fname, content) ==
    LET ud == user_data[u]
    IN  /\ Ready(u)
        /\ InExtras(u)
        /\ UNCHANGED <<host_env, custom_env, budget, allowed_users, ownership, files,
                       repos, running_processes, proc>>
        /\ IF ud.wait = ""
           THEN /\ conv' = [conv EXCEPT ![u] = WAIT_EXTRAS]
                /\ UNCHANGED <<user_data, pc, reply, env_files, req_files>>
           ELSE IF ud.wait = "req" /\ EndsWith(fname, ".txt")
           THEN /\ req_files' = [req_files EXCEPT ![ExtraReqPath(ud)] = content]
                /\ pc' = [pc EXCEPT ![u] =
                             [op |-> "install_extra", arg |-> ExtraReqPath(ud),
                              pid |-> 0, conv |-> TRUE]]
                /\ UNCHANGED <<user_data, conv, reply, env_files>>
           ELSE /\ UNCHANGED req_files
                /\ IF ud.wait = "env" /\ EndsWith(fname, ".env")
                   THEN /\ env_files' = Download(ExtraEnvPath(ud), content)
                        /\ Say(u, "EnvSaved", ExtraEnvPath(ud))
                   ELSE /\ Say(u, "Next", <<>>)
                        /\ UNCHANGED env_files
                /\ user_data' = [user_data EXCEPT ![u].wait = ""]
                /\ conv' = [conv EXCEPT ![u] = WAIT_EXTRAS]
                /\ UNCHANGED pc

\* Mutant: a failed installer ends the conversation.
InstallDone_EndsOnFailure(u, ok) ==
    /\ LoopFree
    /\ pc[u].op \in {"install_extra", "install_git"}
    /\ req_files' = [req_files EXCEPT ![pc[u].arg] = smart_fix_requirements(@)]
    /\ Say(u, IF ok THEN "Installed" ELSE "InstallFailed", pc[u].arg)
    /\ IF ~ok
       THEN /\ conv' = [conv EXCEPT ![u] = END]
            /\ UNCHANGED user_data
       ELSE IF pc[u].op = "install_extra"
       THEN /\ user_data' = [user_data EXCEPT ![u].wait = ""]
            /\ conv' = [conv EXCEPT ![u] = WAIT_EXTRAS]
       ELSE /\ conv' = [conv EXCEPT ![u] = WAIT_SELECT_FILE]
            /\ UNCHANGED user_data
    /\ pc' = [pc EXCEPT ![u] = Idle]
    /\ UNCHANGED <<host_env, env_files, custom_env, budget, allowed_users, ownership,
                   files, repos, running_processes, proc>>

\* install_requirements after its first reply: the file is normalised, the
\* installer runs (installed or failed: both are only reported), and the
\* handler that awaited it goes on.
InstallDone(u, ok) ==
    /\ LoopFree
    /\ pc[u].op \in {"install_extra", "install_git"}
    /\ req_files' = [req_files EXCEPT ![pc[u].arg] = smart_fix_requirements(@)]
    /\ Say(u, IF ok THEN "Installed" ELSE "InstallFailed", pc[u].arg)
    /\ IF pc[u].op = "install_extra"
       THEN /\ user_data' = [user_data EXCEPT ![u].wait = ""]
            /\ conv' = [conv EXCEPT ![u] = WAIT_EXTRAS]
       ELSE /\ conv' = [conv EXCEPT ![u] = WAIT_SELECT_FILE]
            /\ UNCHANGED user_data
    /\ pc' = [pc EXCEPT ![u] = Idle]
    /\ UNCHANGED <<host_env, env_files, custom_env, budget, allowed_users, ownership,
                   files, repos, running_processes, proc>>

\* ----------------------------------------------------------- flow B: clone
\* repo_name = url.split("/")[-1].replace(".git", "")
RepoNameOf(url) == Replace(SplitLast(url, "/"), ".git", <<>>)

CloneOutcomes == {"fail", "nopy", "ok", "okreq"}

\* The overlay files after shutil.rmtree(repo_path).
Rmtree(repo_path) ==
    [p \in DOMAIN env_files |->
        IF Dirname(p) = repo_path THEN NoFile ELSE env_files[p]]

\* The requirements files after shutil.rmtree(repo_path).
RmtreeReq(repo_path) ==
    [p \in DOMAIN req_files |->
        IF Dirname(p) = repo_path THEN <<>> ELSE req_files[p]]

\* receive_git_url up to the clone: the URL test, the removal of a stale
\* directory, and the call of git.  subprocess.check_call is a blocking call:
\* until it returns the event loop runs no handler.
receive_git_url(u, url) ==
    LET repo_name == RepoNameOf(url)
        repo_path == Join(UPLOAD_DIR, repo_name)
    IN  /\ Ready(u)
        /\ conv[u] = WAIT_URL
        /\ UNCHANGED <<host_env, custom_env, budget, allowed_users, ownership, files,
                       running_processes, proc, conv, user_data>>
        /\ IF ~StartsWith(url, "http")
           THEN /\ Say(u, "InvalidUrl", <<>>)
                /\ UNCHANGED <<repos, pc, env_files, req_files>>
           ELSE /\ Say(u, "Cloning", repo_name)
                /\ repos' = repos \ {repo_name}
                /\ env_files' = Rmtree(repo_path)
                /\ req_files' = RmtreeReq(repo_path)
                /\ pc' = [pc EXCEPT ![u] = [op |-> "clone", arg |-> url,
                                            pid |-> 0, conv |-> TRUE]]

\* receive_git_url from the return of git on.  outcome is what the clone
\* produced: a failure, a tree without .py files, a tree with the files m.py
\* and d/m.py, or the same plus a requirements.txt.
CloneReturn(u, outcome) ==
    LET repo_name == RepoNameOf(pc[u].arg)
        repo_path == Join(UPLOAD_DIR, repo_name)
        req_path == Join(repo_path, <<"requirements", ".txt">>)
    IN  /\ pc[u].op = "clone"
        /\ UNCHANGED <<host_env, env_files, custom_env, budget, allowed_users,
                       ownership, files, running_processes, proc>>
        /\ IF outcome = "fail"
           THEN /\ Say(u, "CloneFailed", <<>>)
                /\ conv' = [conv EXCEPT ![u] = END]
                /\ pc' = [pc EXCEPT ![u] = Idle]
                /\ UNCHANGED <<repos, user_data, req_files>>
           ELSE IF outcome = "nopy"
           THEN /\ repos' = repos \cup {repo_name}
                /\ Say(u, "NoPy", <<>>)
                /\ conv' = [conv EXCEPT ![u] = END]
                /\ pc' = [pc EXCEPT ![u] = Idle]
                /\ UNCHANGED <<user_data, req_files>>
           ELSE /\ repos' = repos \cup {repo_name}
                /\ user_data' = [user_data EXCEPT ![u] =
                                    [@ EXCEPT !.repo_path = repo_path,
                                              !.repo_name = repo_name]]
                /\ IF outcome = "okreq"
                   THEN /\ req_files' = [req_files EXCEPT ![req_path] = ManifestExample]
                        /\ pc' = [pc EXCEPT ![u] =
                                     [op |-> "install_git", arg |-> req_path,
                                      pid |-> 0, conv |-> TRUE]]
                        /\ UNCHANGED <<conv, reply>>
                   ELSE /\ Say(u, "SelectFile", <<>>)
                        /\ conv' = [conv EXCEPT ![u] = WAIT_SELECT_FILE]
                        /\ pc' = [pc EXCEPT ![u] = Idle]
                        /\ UNCHANGED req_files

\* select_git_file: composes the id and claims it, without any owner test.
select_git_file(u, filename) ==
    LET ud == user_data[u]
        unique_id == ComposeId(ud.repo_name, filename)
    IN  /\ Ready(u)
        /\ conv[u] = WAIT_SELECT_FILE
        /\ ownership' = save_ownership(unique_id, u, "repo")
        /\ user_data' = [user_data EXCEPT ![u] =
                            [@ EXCEPT !.type = "repo", !.target_id = unique_id,
                                      !.work_dir = ud.repo_path, !.wait = ""]]
        /\ Say(u, "Selected", unique_id)
        /\ conv' = [conv EXCEPT ![u] = WAIT_GIT_EXTRAS]
        /\ UNCHANGED <<req_files, host_env, env_files, custom_env, budget, allowed_users, files, repos, running_processes, proc, pc>>

\* ----------------------------------------------------- flow C: deploy link
deploy_render_receive(u, raw) ==
    /\ Ready(u)
    /\ conv[u] = WAIT_DEPLOY_REPO
    /\ IF ~StartsWith(raw, "http")
       THEN Say(u, "InvalidUrl", <<>>) /\ UNCHANGED conv
       ELSE /\ Say(u, "DeployLink", Replace(raw, ".git", <<>>))
            /\ conv' = [conv EXCEPT ![u] = END]
    /\ UNCHANGED <<req_files, host_env, env_files, custom_env, budget, allowed_users, ownership, files, repos, running_processes,
                   proc, user_data, pc>>

\* ------------------------------------------------------------ state machine
\* list_hosted renders a man_ button for the targets of the registry only, and
\* the stop_, rerun_ buttons come from the menu of such a target: button
\* events name registered targets.
Listed == {t \in Ids : ownership[t].owner # 0}

\* What an earlier run of the bot can have left on disk: any list of allowed
\* users, and nothing else or one claimed target with its artifact
\* (allowed_users.json, ownership.json and the scripts directory outlive the
\* process; running_processes and user_data do not).
TypeOf(t) == IF Contains(t, "|") THEN "repo" ELSE "file"

\* The requirements paths: one per target for an uploaded file, one per
\* repository for the file of its tree.
ReqPaths ==
    {Join(Resolve(t).work_dir, ExtraPrefix(t, TypeOf(t)) \o <<"_req", ".txt">>) :
        t \in Ids}
    \cup {Join(Resolve(t).work_dir, <<"requirements", ".txt">>) : t \in Ids}

\* The env paths of the targets.
EnvPaths == {Resolve(t).env_path : t \in Ids}

Persisted ==
    {[t \in Ids |-> [owner |-> 0, type |-> ""]]}
    \cup {[t \in Ids |-> IF t = t0 THEN [owner |-> o, type |-> TypeOf(t0)]
                                     ELSE [owner |-> 0, type |-> ""]] :
             t0 \in {FileA, RepoFlat}, o \in Users}

Init ==
    /\ allowed_users \in SUBSET (Users \ {ADMIN_ID})
    /\ ownership \in Persisted
    /\ files = {t \in {FileA} : ownership[t].owner # 0}
    /\ repos = {r \in {RepoName} : ownership[RepoFlat].owner # 0}
    /\ running_processes = [t \in Ids |-> 0]
    /\ proc = <<>>
    /\ conv = [u \in Users |-> END]
    /\ user_data = [u \in Users |-> NoData]
    /\ pc = [u \in Users |-> Idle]
    /\ budget = MaxFlows
    /\ host_env = EnvA1
    /\ env_files = [p \in EnvPaths |-> NoFile]
    /\ custom_env = <<>>
    /\ req_files = [p \in ReqPaths |-> <<>>]
    /\ reply = [kind |-> "", tid |-> <<>>]

\* Every event the supervisor takes part in: the admin commands, the intake
\* steps that lead to a run, the button events, and the children.
Next ==
    \/ \E u \in Users \ {ADMIN_ID} : AddUser(u) \/ RemoveUser(u)
    \/ \E u \in Users : upload_start(u) \/ git_start(u)
    \/ \E u \in Users : cancel(u)
    \/ \E u \in Users, fname \in {FileA, BadFile} : receive_py(u, fname)
    \/ \E u \in Users : receive_py_save(u)
    \/ \E u \in Users : receive_extras(u, TxtRun)
    \/ \E u \in Users, url \in {UrlGood, UrlBad} : receive_git_url(u, url)
    \/ \E u \in Users, o \in {"fail", "nopy", "ok"} : CloneReturn(u, o)
    \/ \E u \in Users, f \in {PathFlat, PathDeep} : select_git_file(u, f)
    \/ \E u \in Users, t \in Listed : Manage(u, t) \/ Stop(u, t) \/ Rerun(u, t)
    \/ \E u \in Users : GraceDone(u) \/ StopReturn(u)
    \/ \E p \in 1..Len(proc) : ChildExit(p)

Spec == Init /\ [][Next]_vars

\* The intake flows of both users without button events.
IntakeInit ==
    /\ allowed_users \in SUBSET (Users \ {ADMIN_ID})
    /\ ownership = [t \in Ids |-> [owner |-> 0, type |-> ""]]
    /\ files = {}
    /\ repos = {}
    /\ running_processes = [t \in Ids |-> 0]
    /\ proc = <<>>
    /\ conv = [u \in Users |-> END]
    /\ user_data = [u \in Users |-> NoData]
    /\ pc = [u \in Users |-> Idle]
    /\ budget = MaxIntake
    /\ host_env = EnvA1
    /\ env_files = [p \in EnvPaths |-> NoFile]
    /\ custom_env = <<>>
    /\ req_files = [p \in ReqPaths |-> <<>>]
    /\ reply = [kind |-> "", tid |-> <<>>]

IntakeNext ==
    \/ \E u \in Users \ {ADMIN_ID} : AddUser(u) \/ RemoveUser(u)
    \/ \E u \in Users : upload_start(u) \/ git_start(u) \/ deploy_render_start(u)
    \/ \E u \in Users : cancel(u)
    \/ \E u \in Users, fname \in {FileA, BadFile} : receive_py(u, fname)
    \/ \E u \in Users : receive_py_save(u)
    \/ \E u \in Users, txt \in {TxtRun, TxtReqs, TxtEnv, TxtOther} : receive_extras(u, txt)
    \/ \E u \in Users, fname \in {ReqFile, EnvFile, BadFile} :
          receive_extra_files(u, fname,
                              IF fname = ReqFile THEN ManifestExample ELSE OverlayA2B3)
    \/ \E u \in Users, ok \in BOOLEAN : InstallDone(u, ok)
    \/ \E u \in Users, url \in {UrlGood, UrlBad} : receive_git_url(u, url)
    \/ \E u \in Users, o \in CloneOutcomes : CloneReturn(u, o)
    \/ \E u \in Users, f \in {PathFlat, PathDeep} : select_git_file(u, f)
    \/ \E u \in Users, raw \in {UrlGood, UrlBad} : deploy_render_receive(u, raw)
    \/ \E u \in Users : GraceDone(u)
    \/ \E p \in 1..Len(proc) : ChildExit(p)

SpecIntake == IntakeInit /\ [][IntakeNext]_vars

\* The overlay builder on its own: an uploaded script a.py of the admin, any
\* host environment and overlay file within the bounds, and reruns of a.py.
EnvTokens == {"A", "B", "=", "#", " "}

RECURSIVE SeqsUpTo(_, _)
\* The sequences over S of length at most n.
SeqsUpTo(S, n) ==
    IF n = 0 THEN {<<>>}
    ELSE LET shorter == SeqsUpTo(S, n - 1)
         IN  shorter \cup {Append(q, x) : q \in shorter, x \in S}

EnvLines ==
    SeqsUpTo(EnvTokens, MaxLineLen)
    \cup {OverlayA2B3[1], OverlayA2B3[2], <<" ", "A", " ", "=", " ", "2", " ">>}

EnvInit ==
    /\ allowed_users = {}
    /\ ownership = [t \in Ids |-> IF t = FileA
                                       THEN [owner |-> ADMIN_ID, type |-> "file"]
                                       ELSE [owner |-> 0, type |-> ""]]
    /\ files = {FileA}
    /\ repos = {}
    /\ running_processes = [t \in Ids |-> 0]
    /\ proc = <<>>
    /\ conv = [u \in Users |-> END]
    /\ user_data = [u \in Users |-> NoData]
    /\ pc = [u \in Users |-> Idle]
    /\ budget = 0
    /\ host_env \in {<<>>, EnvA1}
    /\ \E f \in {NoFile} \cup {[exists |-> TRUE, lines |-> ls] :
                                  ls \in SeqsUpTo(EnvLines, MaxEnvLines)} :
          env_files = [p \in EnvPaths |->
                          IF p = Resolve(FileA).env_path THEN f ELSE NoFile]
    /\ custom_env = <<>>
    /\ req_files = [p \in ReqPaths |-> <<>>]
    /\ reply = [kind |-> "", tid |-> <<>>]

EnvNext ==
    \/ Rerun(ADMIN_ID, FileA)
    \/ GraceDone(ADMIN_ID)
    \/ \E p \in 1..Len(proc) : ChildExit(p)

SpecEnv == EnvInit /\ [][EnvNext]_vars

\* The composite ids on their own: the git flow of the admin with repo names
\* and relative paths that hold the separator or not, up to the run.
IdsInit ==
    /\ allowed_users = {}
    /\ ownership = [t \in Ids |-> [owner |-> 0, type |-> ""]]
    /\ files = {}
    /\ repos = {}
    /\ running_processes = [t \in Ids |-> 0]
    /\ proc = <<>>
    /\ conv = [u \in Users |-> END]
    /\ user_data = [u \in Users |-> NoData]
    /\ pc = [u \in Users |-> Idle]
    /\ budget = MaxIntake
    /\ host_env = EnvA1
    /\ env_files = [p \in EnvPaths |-> NoFile]
    /\ custom_env = <<>>
    /\ req_files = [p \in ReqPaths |-> <<>>]
    /\ reply = [kind |-> "", tid |-> <<>>]

IdsNext ==
    \/ git_start(ADMIN_ID)
    \/ \E url \in {UrlGood, UrlPipe} : receive_git_url(ADMIN_ID, url)
    \/ CloneReturn(ADMIN_ID, "ok")
    \/ \E f \in {PathFlat, PathDeep, PathPipe} : select_git_file(ADMIN_ID, f)
    \/ \E txt \in {TxtRun, TxtReqs} : receive_extras(ADMIN_ID, txt)
    \/ receive_extra_files(ADMIN_ID, ReqFile, ManifestExample)
    \/ \E ok \in BOOLEAN : InstallDone(ADMIN_ID, ok)
    \/ GraceDone(ADMIN_ID)
    \/ \E p \in 1..Len(proc) : ChildExit(p)

SpecIds == IdsInit /\ [][IdsNext]_vars

\* The buttons on their own: an earlier run left one uploaded script whose
\* name holds the text of a prefix; list_hosted renders man_<tid> for it, and
\* the menu of the man_ branch renders stop_, rerun_ and url_ buttons for the
\* id that branch took from the payload.
ButtonsInit ==
    /\ allowed_users \in SUBSET (Users \ {ADMIN_ID})
    /\ \E t0 \in PrefixFiles, o \in Users :
          /\ ownership = [t \in Ids |-> IF t = t0 THEN [owner |-> o, type |-> "file"]
                                                  ELSE [owner |-> 0, type |-> ""]]
          /\ files = {t0}
    /\ repos = {}
    /\ running_processes = [t \in Ids |-> 0]
    /\ proc = <<>>
    /\ conv = [u \in Users |-> END]
    /\ user_data = [u \in Users |-> NoData]
    /\ pc = [u \in Users |-> Idle]
    /\ budget = MaxFlows
    /\ host_env = EnvA1
    /\ env_files = [p \in EnvPaths |-> NoFile]
    /\ custom_env = <<>>
    /\ req_files = [p \in ReqPaths |-> <<>>]
    /\ reply = [kind |-> "", tid |-> <<>>]

\* The payloads of the buttons the bot has rendered.
Buttons ==
    {Payload("man_", t) : t \in Listed}
    \cup {Payload(p, ParseId("man_", Payload("man_", t))) :
             p \in Prefixes \ {"man_"}, t \in Listed}

ButtonsNext ==
    \/ \E u \in Users, data \in Buttons : manage_callback(u, data)
    \/ \E u \in Users : GraceDone(u) \/ StopReturn(u)
    \/ \E p \in 1..Len(proc) : ChildExit(p)

SpecButtons == ButtonsInit /\ [][ButtonsNext]_vars

\* The manifest normaliser on its own: the admin has uploaded a.py, asked for
\* requirements and sent a file; the installer is about to run on it.
ManifestHeads ==
    {<<>>, Directive, <<" ">> \o Directive, SubSeq(Directive, 1, 10),
     <<"P", "I", "P", " ", "I", "N", "S", "T", "A", "L", "L">>}

ManifestLines ==
    {h \o b : h \in ManifestHeads, b \in SeqsUpTo({"a", "l", " "}, MaxBodyLen)}

Manifests == SeqsUpTo(ManifestLines, MaxManifestLines) \cup {ManifestExample}

FixInit ==
    /\ allowed_users = {}
    /\ ownership = [t \in Ids |-> IF t = FileA
                                       THEN [owner |-> ADMIN_ID, type |-> "file"]
                                       ELSE [owner |-> 0, type |-> ""]]
    /\ files = {FileA}
    /\ repos = {}
    /\ running_processes = [t \in Ids |-> 0]
    /\ proc = <<>>
    /\ conv = [u \in Users |-> IF u = ADMIN_ID THEN WAIT_EXTRAS ELSE END]
    /\ user_data = [u \in Users |->
                       IF u = ADMIN_ID
                       THEN [NoData EXCEPT !.type = "file", !.target_id = FileA,
                                           !.work_dir = UPLOAD_DIR, !.wait = "req"]
                       ELSE NoData]
    /\ pc = [u \in Users |->
                IF u = ADMIN_ID
                THEN [op |-> "install_extra", arg |-> ExtraReqPath(user_data[u]),
                      pid |-> 0, conv |-> TRUE]
                ELSE Idle]
    /\ budget = 0
    /\ host_env = EnvA1
    /\ env_files = [p \in EnvPaths |-> NoFile]
    /\ custom_env = <<>>
    /\ \E m \in Manifests :
          req_files = [p \in ReqPaths |->
                          IF p = ExtraReqPath(user_data[ADMIN_ID]) THEN m ELSE <<>>]
    /\ reply = [kind |-> "Installing", tid |-> <<>>]

FixNext ==
    \/ \E ok \in BOOLEAN : InstallDone(ADMIN_ID, ok)
    \/ receive_extras(ADMIN_ID, TxtReqs)
    \/ receive_extra_files(ADMIN_ID, ReqFile, ManifestExample)

SpecFix == FixInit /\ [][FixNext]_vars

\* ================================================================ claims

\* The children of target t that have not exited.
LiveChildren(t) ==
    {p \in 1..Len(proc) : proc[p].target = t /\ proc[p].st = "alive"}

\* C1: in every reachable state each target has at most one spawned child
\* that has not exited, and that child is the one the table records for the
\* target (the table holds one entry per target).
C1_AtMostOneLive ==
    \A t \in Targets :
        /\ Cardinality(LiveChildren(t)) <= 1
        /\ \A p \in LiveChildren(t) : running_processes[t] = p

\* A target started a second time after its first child exited.
C1_Witness ==
    \E t \in Targets :
        /\ Cardinality(LiveChildren(t)) = 1
        /\ \E p \in 1..Len(proc) : proc[p].target = t /\ proc[p].st # "alive"

\* C2 as claimed: no step changes the record of a target that has an owner,
\* unless the new owner is that owner or the administrator; and an upload by
\* such a user leaves the conversation in WAIT_PY.
C2_NonOwnerClaimNoMutation ==
    [][/\ \A t \in Targets :
             (ownership[t].owner # 0 /\ ownership'[t] # ownership[t])
                 => ownership'[t].owner \in {ownership[t].owner, ADMIN_ID}
       /\ \A u \in Users, f \in Targets :
             (receive_py(u, f) /\ get_owner(f) \notin {0, u} /\ u # ADMIN_ID)
                 => (conv'[u] = WAIT_PY /\ pc'[u] = Idle)]_vars

\* The caller may act on the target: a recognised user who owns it, or the
\* administrator.
Authorized(u, t) == ~Denied(u) /\ (u = ADMIN_ID \/ u = get_owner(t))

\* C3 as claimed: a stop or rerun by a caller who may not act on the target
\* changes neither the table, nor the children, nor the registry.
C3_UnauthorizedNoMutation ==
    [][\A u \in Users, t \in Targets :
          ((Stop(u, t) \/ Rerun(u, t)) /\ ~Authorized(u, t))
              => UNCHANGED <<running_processes, proc, ownership>>]_vars

\* C4 as claimed: after start reports Crashed, for a child that exited on its
\* own inside the grace wait, the target has no entry in the table; after it
\* reports Running the entry is there.
C4_CrashEvicts ==
    /\ (/\ reply.kind = "Crashed"
        /\ \A p \in 1..Len(proc) : proc[p].target = reply.tid => proc[p].st = "exited")
           => running_processes[reply.tid] = 0
    /\ reply.kind = "Running" => running_processes[reply.tid] # 0

\* C5: status(T) is false after every stop that returned, and a stop of a
\* target whose status is false (a second stop, a crashed or never started
\* target) reports AlreadyStopped, signals nothing and does not wait.
C5_StopIdempotent ==
    /\ [](reply.kind \in {"Stopped", "AlreadyStopped"} => ~script_status(reply.tid))
    /\ [][\A u \in Users, t \in Targets :
             (~script_status(t) /\ Stop(u, t))
                 => /\ reply' = [kind |-> "AlreadyStopped", tid |-> t]
                    /\ UNCHANGED <<proc, pc, running_processes>>]_vars

\* A second stop of a target that an earlier stop had killed.
C5_Witness ==
    /\ reply.kind = "AlreadyStopped"
    /\ running_processes[reply.tid] # 0
    /\ proc[running_processes[reply.tid]].st = "killed"

\* User u starts target t: RUN NOW in the conversation, or a rerun button.
StartOn(u, t) ==
    \/ TargetOf(user_data[u]) = t /\ receive_extras(u, TxtRun)
    \/ \E b \in Targets :
          TargetOf([user_data[u] EXCEPT !.fallback_id = b]) = t /\ Rerun(u, b)

\* C6: a start of a target that has a live entry reports AlreadyRunning,
\* spawns nothing and leaves the table as it is.
C6_AlreadyRunning ==
    [][\A u \in Users, t \in Targets :
          (script_status(t) /\ StartOn(u, t))
              => /\ reply' = [kind |-> "AlreadyRunning", tid |-> t]
                 /\ UNCHANGED <<proc, running_processes>>]_vars

\* AlreadyRunning reported while another user's start of the same target is
\* still in its grace wait.
C6_Witness ==
    /\ reply.kind = "AlreadyRunning"
    /\ \E u \in Users : pc[u].op = "grace" /\ pc[u].arg = reply.tid
    /\ script_status(reply.tid)

\* C7 as claimed: the target a rerun of t checks, spawns and registers is t.
C7_RerunActsOnItsTarget ==
    [][\A u \in Users, t \in Targets :
          Rerun(u, t)
              => /\ reply'.tid = t
                 /\ proc' # proc => /\ proc'[Len(proc')].target = t
                                    /\ running_processes'[t] = Len(proc')]_vars

\* The session fields of user_data are unset.
SessionCleared(ud) ==
    /\ ud.target_id = <<>>
    /\ ud.work_dir = <<>>
    /\ ud.wait = ""
    /\ ud.repo_path = <<>>
    /\ ud.repo_name = <<>>

\* C8 as claimed: a cancel ends the conversation and clears the session.
C8_CancelClearsSession ==
    [][\A u \in Users :
          cancel(u) => (conv'[u] = END /\ SessionCleared(user_data'[u]))]_vars

\* C9 as claimed: when the handler of RUN NOW is over (at once, or after the
\* grace wait), the conversation of the user has ended.
C9_RunEndsConversation ==
    [][\A u \in Users :
          ((receive_extras(u, TxtRun) /\ pc'[u] = Idle) \/ (GraceDone(u) /\ pc[u].conv))
              => conv'[u] = END]_vars

\* The lines of the overlay file of target t (none when it has no file).
OverlayOf(t) ==
    IF env_files[Resolve(t).env_path].exists
    THEN env_files[Resolve(t).env_path].lines
    ELSE <<>>

\* A line that is not blank, not a comment, and contains "=".
Binds(line) ==
    /\ Strip(line) # <<>>
    /\ ~StartsWith(Strip(line), "#")
    /\ Contains(line, "=")

\* The text before and after the first "=" of a line, as written.
RawKey(line) == SplitFirst(line, "=")[1]
RawValue(line) == SplitFirst(line, "=")[2]

\* The same without the whitespace around them.
TrimmedKey(line) == Strip(RawKey(line))
TrimmedValue(line) == Strip(RawValue(line))

\* base with, for each binding line, its key bound to its value: the last
\* binding line of a key wins, a key no line binds keeps the inherited value.
Merged(base, lines, K(_), V(_)) ==
    LET Q == {i \in 1..Len(lines) : Binds(lines[i])}
        last(k) == CHOOSE i \in Q :
                      K(lines[i]) = k /\ \A j \in Q : K(lines[j]) = k => j <= i
    IN  [k \in (DOMAIN base) \cup {K(lines[i]) : i \in Q} |->
            IF \E i \in Q : K(lines[i]) = k THEN V(lines[last(k)]) ELSE base[k]]

\* A start of target t that finds no live entry and both directories present.
CleanStart(u, t) ==
    /\ Rerun(u, t)
    /\ TargetOf([user_data[u] EXCEPT !.fallback_id = t]) = t
    /\ ~script_status(t)
    /\ DirExists(Dirname(LogPath(t)))
    /\ DirExists(Resolve(t).work_dir)

\* C10 as claimed: the environment of every spawned child is the host
\* environment with, for each non-blank, non-comment line containing "=", the
\* text before the first "=" bound to the text after it (later lines and
\* overlay values winning); no content of the file keeps the child from
\* being spawned.
C10_OverlayMerge ==
    [][/\ Len(proc') > Len(proc)
           => custom_env' = Merged(host_env, OverlayOf(proc'[Len(proc')].target),
                                   RawKey, RawValue)
       /\ \A u \in Users, t \in Targets :
             CleanStart(u, t) => Len(proc') > Len(proc)]_vars

\* C10, amended: the same, but the key and the value are taken without the
\* whitespace around them.
C10_OverlayMergeTrimmed ==
    [][/\ Len(proc') > Len(proc)
           => custom_env' = Merged(host_env, OverlayOf(proc'[Len(proc')].target),
                                   TrimmedKey, TrimmedValue)
       /\ \A u \in Users, t \in Targets :
             CleanStart(u, t) => Len(proc') > Len(proc)]_vars

\* The example: base {A: "1"} and the file "A=2", "B=3" gave the child
\* {A: "2", B: "3"}.
C10_Witness ==
    /\ proc # <<>>
    /\ host_env = EnvA1
    /\ OverlayOf(proc[Len(proc)].target) = OverlayA2B3
    /\ custom_env = (<<"A">> :> <<"2">>) @@ (<<"B">> :> <<"3">>)

\* A file with a line that has no "=" did not keep the child from starting.
C10_WitnessNoEquals ==
    /\ proc # <<>>
    /\ OverlayOf(proc[Len(proc)].target) = << <<"A">>, <<"B", "=", "A">> >>
    /\ custom_env = (<<"B">> :> <<"A">>) @@ host_env

\* The maximal runs of non-blank characters of s, as index pairs.
WordSpans(s) ==
    {w \in (1..Len(s)) \X (1..Len(s)) :
        /\ w[1] <= w[2]
        /\ \A k \in w[1]..w[2] : s[k] # " "
        /\ (w[1] = 1 \/ s[w[1] - 1] = " ")
        /\ (w[2] = Len(s) \/ s[w[2] + 1] = " ")}

\* The whitespace-separated words of s, in order.
Words(s) ==
    LET W == WordSpans(s)
    IN  [n \in 1..Cardinality(W) |->
            LET w == CHOOSE w \in W : Cardinality({v \in W : v[1] < w[1]}) = n - 1
            IN  SubSeq(s, w[1], w[2])]

\* The entries one manifest line stands for: none for a blank line, the
\* words after the keyword for a line that begins with the keyword (in any
\* case), the line itself (without the whitespace around it) otherwise.
EntriesOfLine(raw) ==
    LET line == Strip(raw)
    IN  IF line = <<>> THEN <<>>
        ELSE IF HasPrefix(LowerStr(line), Directive)
             THEN Words(SubSeq(line, Len(Directive) + 1, Len(line)))
             ELSE <<line>>

RECURSIVE EntriesOf(_)
\* The entries of the lines, in order.
EntriesOf(lines) ==
    IF lines = <<>> THEN <<>>
    ELSE EntriesOfLine(Head(lines)) \o EntriesOf(Tail(lines))

\* C11: the file the installer is given holds, in order, the entries of the
\* lines of the uploaded file: the package specs of every line that begins
\* with the install keyword, every other non-blank line as one entry, and
\* nothing for a blank line.
C11_ManifestNormalized ==
    [][\A u \in Users :
          (InstallDone(u, TRUE) \/ InstallDone(u, FALSE))
              => req_files'[pc[u].arg] = EntriesOf(req_files[pc[u].arg])]_vars

\* The example: "pip install requests flask", "numpy==1.2" was normalised to
\* requests, flask, numpy==1.2.
C11_Witness ==
    /\ reply.kind \in {"Installed", "InstallFailed"}
    /\ req_files[reply.tid] = <<<<"requests">>, <<"flask">>, <<"numpy==1.2">>>>

\* C12 as claimed: the id composed at file selection is r|p, and both places
\* that take an id apart (start's resolution and the extras prefix) recover
\* the repo name r and the relative path p from it.
C12_CompositeIdRoundTrip ==
    [][\A u \in Users, p \in {PathFlat, PathDeep, PathPipe} :
          select_git_file(u, p)
              => LET r == user_data[u].repo_name
                     id == user_data'[u].target_id
                 IN  /\ id = r \o <<"|">> \o p
                     /\ Resolve(id).work_dir = Join(UPLOAD_DIR, r)
                     /\ Resolve(id).script_path = p
                     /\ ExtraPrefix(id, user_data'[u].type) = r]_vars

\* C13 as claimed: a claim by the current owner of a target or by the
\* administrator (the save of an upload, a file selection) leaves the recorded
\* owner of every target that has one unchanged.
C13_FirstClaimKeepsOwner ==
    [][\A u \in Users, t \in Ids :
          (/\ ownership[t].owner # 0
           /\ u \in {ADMIN_ID, ownership[t].owner}
           /\ \/ receive_py_save(u)
              \/ \E f \in {PathFlat, PathDeep} : select_git_file(u, f))
              => ownership'[t].owner = ownership[t].owner]_vars

\* C14 as claimed: a stop that found a live entry returns only after the
\* child has exited, and when it has returned the target has no entry in the
\* table.
C14_StopEvicts ==
    reply.kind = "Stopped"
        => /\ \A p \in 1..Len(proc) : proc[p].target = reply.tid => ~Polls(p)
           /\ running_processes[reply.tid] = 0

\* C15: a start of a target whose table entry names a child that has ended
\* (stopped, crashed in the grace wait, or exited on its own) is not answered
\* with AlreadyRunning, and when the directories of the target are there it
\* spawns a child that becomes the entry of the target and its only live
\* child.
C15_Reentrant ==
    [][\A u \in Users, t \in Targets :
          (/\ running_processes[t] # 0
           /\ ~Polls(running_processes[t])
           /\ StartOn(u, t))
              => /\ reply'.kind # "AlreadyRunning"
                 /\ (DirExists(Dirname(LogPath(t))) /\ DirExists(Resolve(t).work_dir))
                       => /\ reply' = [kind |-> "Started", tid |-> t]
                          /\ proc' = Append(proc, [target |-> t, st |-> "alive"])
                          /\ running_processes'[t] = Len(proc')
                          /\ \A p \in 1..Len(proc) : proc[p].target = t => ~Polls(p)]_vars

\* A target started again after its first child was stopped or exited: the
\* table names the second child.
C15_Witness ==
    /\ reply.kind = "Started"
    /\ Len(proc) = 2
    /\ proc[1].target = reply.tid
    /\ proc[1].st \in {"killed", "exited"}
    /\ proc[2] = [target |-> reply.tid, st |-> "alive"]
    /\ running_processes[reply.tid] = 2

\* C16: the owner test of an upload and the write of the claim are two steps
\* with the download between them, and the write tests nothing: whoever
\* writes becomes the recorded owner, whatever was recorded in between, and
\* goes on to WAIT_EXTRAS.
C16_ClaimRace ==
    [][\A u \in Users :
          receive_py_save(u)
              => /\ ownership'[pc[u].arg] = [owner |-> u, type |-> "file"]
                 /\ conv'[u] = WAIT_EXTRAS]_vars

\* Both users uploaded a.py, both passed the owner test while it had no
\* owner, both are in WAIT_EXTRAS with it, and the registry names the
\* non-administrator, who wrote last, although the administrator had claimed
\* it before that write.
C16_Witness ==
    /\ \A u \in Users : conv[u] = WAIT_EXTRAS /\ user_data[u].target_id = FileA
    /\ ownership[FileA].owner # ADMIN_ID
    /\ reply = [kind |-> "Saved", tid |-> FileA]

\* C17: while a step of one user is inside the clone, the installer or the
\* grace wait after a spawn, an event of another user is still handled: the
\* /cancel of any other user who is in a conversation and has no step of
\* their own pending can be taken.
C17_LoopNotHeld ==
    \A u, v \in Users :
        (/\ u # v
         /\ pc[u].op \in {"clone", "install_extra", "install_git", "grace"}
         /\ pc[v] = Idle
         /\ conv[v] # END)
            => ENABLED cancel(v)

\* C18: a step that rejects its input leaves the flow where it was and
\* persists and claims nothing: a file that is no script in WAIT_PY, a text
\* that is no URL in WAIT_URL and in WAIT_DEPLOY_REPO, and a file of the
\* wrong extension while a requirements or overlay upload is awaited, which
\* leaves that pending kind in place.
C18_ValidationKeepsState ==
    [][\A u \in Users :
          LET rejected ==
                  \/ receive_py(u, BadFile)
                  \/ receive_git_url(u, UrlBad)
                  \/ deploy_render_receive(u, UrlBad)
                  \/ /\ user_data[u].wait # ""
                     /\ receive_extra_files(u, BadFile, OverlayA2B3)
          IN  rejected
                  => /\ conv'[u] = conv[u]
                     /\ user_data'[u].wait = user_data[u].wait
                     /\ UNCHANGED <<ownership, files, repos, env_files, req_files>>]_vars

\* C19: when the clone fails the conversation ends, no file selection is
\* offered and no ownership is claimed; when the installer fails the failure
\* is reported and the flow goes on, to WAIT_SELECT_FILE after a clone and to
\* the extras menu after an uploaded requirements file.
C19_ToolFailures ==
    [][\A u \in Users :
          /\ CloneReturn(u, "fail")
                 => /\ conv'[u] = END
                    /\ reply'.kind = "CloneFailed"
                    /\ pc'[u] = Idle
                    /\ UNCHANGED <<ownership, user_data>>
          /\ InstallDone(u, FALSE)
                 => /\ reply'.kind = "InstallFailed"
                    /\ pc'[u] = Idle
                    /\ conv'[u] = IF pc[u].op = "install_git"
                                  THEN WAIT_SELECT_FILE
                                  ELSE WAIT_EXTRAS]_vars

\* The installer failed on the requirements.txt of a cloned repository and the
\* user who cloned it is at the file selection.
C19_Witness ==
    \E u \in Users :
        /\ reply = [kind |-> "InstallFailed",
                    tid |-> Join(user_data[u].repo_path, <<"requirements", ".txt">>)]
        /\ user_data[u].repo_path # <<>>
        /\ conv[u] = WAIT_SELECT_FILE
        /\ pc[u] = Idle

\* C20: the id a handler takes from the payload of a button is the id the
\* button was rendered for, also when that id holds the text of the prefix:
\* whatever button of a target T is pressed, the handler acts on T and
\* answers about T.
C20_PayloadRoundTrip ==
    [][\A u \in Users, p \in Prefixes, T \in Ids :
          manage_callback(u, Payload(p, T))
              => /\ ParseId(p, Payload(p, T)) = T
                 /\ reply'.tid = T]_vars

\* The users other than u who own a target of the repository named r.
ForeignOwners(r, u) ==
    {ownership[t].owner :
        t \in {x \in Ids : Contains(x, "|") /\ SplitFirst(x, "|")[1] = r}}
    \ {0, u}

\* C21: the clone step of a user who is not the administrator never removes
\* the directory of a repository in which another user owns a target, whether
\* or not that target has a live entry in the process table.
C21_CloneKeepsForeignRepo ==
    [][\A u \in Users \ {ADMIN_ID} :
          (\E url \in {UrlGood, UrlBad, UrlPipe} : receive_git_url(u, url))
              => \A r \in repos : ForeignOwners(r, u) # {} => r \in repos']_vars

====
